---- MODULE Spec2Model ----
(***************************************************************************)
(* latencee: a terminal latency monitor (src/src/main.rs).                 *)
(*                                                                         *)
(* One monitor_server task per configured server probes, classifies,       *)
(* appends to its private history, evicts what is older than the graph     *)
(* window, and sends a ServerStatus on an unbounded channel.  main drains  *)
(* the channel with try_recv, replaces the matching entry of               *)
(* server_statuses and redraws.                                            *)
(*                                                                         *)
(* Durations and Instants are integers in milliseconds.  Option<T> is a    *)
(* sequence of length 0 (None) or 1 (Some).                                *)
(***************************************************************************)
EXTENDS Integers, Sequences, FiniteSets, TLC

(***************************************************************************)
(* Program constants                                                       *)
(***************************************************************************)
GRAPH_WIDTH == 60
GRAPH_HISTORY_MINUTES == 10
GoodLimit == 50
FairLimit == 150
PoorLimit == 500
PollInterval == 2000
RedrawInterval == 500

\* Duration::from_secs(GRAPH_HISTORY_MINUTES as u64 * 60), in milliseconds
RetentionWindow == GRAPH_HISTORY_MINUTES * 60 * 1000

(***************************************************************************)
(* Bounds of the model                                                     *)
(***************************************************************************)
\* the clock visits InstantAt(0), ..., InstantAt(MaxStep)
MaxStep == 2
\* statuses waiting in the (unbounded) channel: a send to an open channel
\* that already holds this many is not explored
MaxChan == 2
\* classify_latency is examined on 0 .. MaxLatency milliseconds and None
MaxLatency == 520
\* draw_graph is examined on histories of up to MaxSamples samples
MaxSamples == 2
\* the staleness marker is examined on ages of 0 .. MaxAge milliseconds
MaxAge == 7000

\* the first entries of get_default_servers(); the display name is the key
get_default_servers == << "Google DNS", "Cloudflare DNS" >>

Names == { get_default_servers[i] : i \in DOMAIN get_default_servers }

\* a display name no configured server has
UnknownName == "Unknown"

None == << >>
Some(x) == << x >>

\* enum ConnectionStatus
Tiers == { "Good", "Fair", "Poor", "Timeout" }

\* what ping_host returns: the first server answers in 30 ms or not at all,
\* every other server answers in 75 ms
ping_host(host) ==
    IF host = get_default_servers[1] THEN { None, Some(30) } ELSE { Some(75) }

ProbeResults == UNION { ping_host(n) : n \in Names }

\* the instants the clock visits: program start, one poll interval later,
\* then, after a stall of a whole retention window, one poll interval apart
InstantAt(k) ==
    IF k < 2 THEN k * PollInterval ELSE RetentionWindow + (k - 1) * PollInterval

Instants == { InstantAt(k) : k \in 0..MaxStep }

\* the last instant of the model
LastInstant == InstantAt(MaxStep)

VARIABLES
    clock,            \* what Instant::now() returns
    pc,               \* monitor_server: where each task is
    history,          \* monitor_server: the task's own VecDeque
    wakeAt,           \* monitor_server: when Timer::after(2 s) fires, if it is set
    chan,             \* the unbounded channel's queue
    closed,           \* the receiver has been dropped
    server_statuses,  \* main: the Vec drawn by draw_ui
    mainpc,           \* main: where the display loop is
    mainWakeAt,       \* main: when Timer::after(500 ms) fires, if it is set
    sentLog,          \* history variable: every ServerStatus sent, in order
    recvLog,          \* history variable: every ServerStatus received, in order
    pcAtClose,        \* history variable: where each task was when the receiver went
    input,            \* SpecClassify: the Option<Duration> given to classify_latency
                      \* SpecGraph: the history and the Instant::now() of draw_graph
                      \* SpecStale: last_update and the Instant::now() of elapsed()
    output            \* what the function under examination returned, once called

vars == << clock, pc, history, wakeAt, chan, closed, server_statuses,
           mainpc, mainWakeAt, sentLog, recvLog, pcAtClose, input, output >>

classifyVars == << input, output >>
monitorVars == << pc, history, wakeAt >>
mainVars == << server_statuses, mainpc, mainWakeAt, recvLog, pcAtClose >>

(***************************************************************************)
(* classify_latency                                                        *)
(***************************************************************************)
classify_latency_off_by_one(latency) ==
    IF latency # None /\ latency[1] <= GoodLimit THEN "Good"
    ELSE IF latency # None /\ latency[1] <= FairLimit THEN "Fair"
    ELSE IF latency # None /\ latency[1] <= PoorLimit THEN "Poor"
    ELSE "Timeout"

classify_latency(latency) ==
    IF latency # None /\ latency[1] < GoodLimit THEN "Good"
    ELSE IF latency # None /\ latency[1] < FairLimit THEN "Fair"
    ELSE IF latency # None /\ latency[1] < PoorLimit THEN "Poor"
    ELSE "Timeout"

(***************************************************************************)
(* monitor_server                                                          *)
(***************************************************************************)
\* the sample put at the front of the deque
PushBack_front(h, now, status) == << [timestamp |-> now, status |-> status] >> \o h

\* history.push_back((now, status))
PushBack(h, now, status) == Append(h, [timestamp |-> now, status |-> status])

\* eviction left out
Evict_disabled(h, cutoff) == h

\* while let Some((timestamp, _)) = history.front()
\*     { if *timestamp < cutoff { pop_front } else { break } }
RECURSIVE Evict(_, _)
Evict(h, cutoff) ==
    IF h # << >> /\ Head(h).timestamp < cutoff
    THEN Evict(Tail(h), cutoff)
    ELSE h

\* a literal whose status field is the constant of the placeholder
MakeStatus_default_status(name, latency, now, status, h) ==
    [ name |-> name, latency |-> latency, last_update |-> now,
      status |-> "Timeout", history |-> h ]

\* the ServerStatus literal; history is history.clone(), a value of its own
MakeStatus(name, latency, now, status, h) ==
    [ name |-> name, latency |-> latency, last_update |-> now,
      status |-> status, history |-> h ]

\* the send's error ignored: the loop goes on to the timer
MonitorIterate_ignores_send_error(t) ==
    /\ pc[t] = "probing"
    /\ closed \/ Len(chan) < MaxChan
    /\ \E latency \in ping_host(t) :
         LET status == classify_latency(latency)
             now == clock
             cutoff == now - RetentionWindow
             h == Evict(PushBack(history[t], now, status), cutoff)
             server_status == MakeStatus(t, latency, now, status, h)
         IN /\ history' = [history EXCEPT ![t] = h]
            /\ IF closed
               THEN UNCHANGED << chan, sentLog >>
               ELSE /\ chan' = Append(chan, server_status)
                    /\ sentLog' = Append(sentLog, server_status)
            /\ wakeAt' = [wakeAt EXCEPT ![t] = Some(clock + PollInterval)]
            /\ pc' = [pc EXCEPT ![t] = "sleeping"]
    /\ UNCHANGED << clock, closed, mainVars, classifyVars >>

\* a failed probe ends the loop, as if ping_host's None were propagated with ?
MonitorIterate_breaks_on_failed_probe(t) ==
    /\ pc[t] = "probing"
    /\ closed \/ Len(chan) < MaxChan
    /\ \E latency \in ping_host(t) :
         LET status == classify_latency(latency)
             now == clock
             cutoff == now - RetentionWindow
             h == Evict(PushBack(history[t], now, status), cutoff)
             server_status == MakeStatus(t, latency, now, status, h)
         IN IF latency = None
            THEN /\ pc' = [pc EXCEPT ![t] = "done"]
                 /\ UNCHANGED << history, chan, sentLog, wakeAt >>
            ELSE /\ history' = [history EXCEPT ![t] = h]
                 /\ IF closed
                    THEN /\ pc' = [pc EXCEPT ![t] = "done"]
                         /\ UNCHANGED << chan, sentLog, wakeAt >>
                    ELSE /\ chan' = Append(chan, server_status)
                         /\ sentLog' = Append(sentLog, server_status)
                         /\ wakeAt' = [wakeAt EXCEPT ![t] = Some(clock + PollInterval)]
                         /\ pc' = [pc EXCEPT ![t] = "sleeping"]
    /\ UNCHANGED << clock, closed, mainpc, mainWakeAt, server_statuses, recvLog,
                    pcAtClose, classifyVars >>

\* the history handed over by reference instead of history.clone(): every
\* ServerStatus of the task, queued or displayed, sees the task's later
\* push_back and pop_front
MonitorIterate_shared_history(t) ==
    /\ pc[t] = "probing"
    /\ closed \/ Len(chan) < MaxChan
    /\ \E latency \in ping_host(t) :
         LET status == classify_latency(latency)
             now == clock
             cutoff == now - RetentionWindow
             h == Evict(PushBack(history[t], now, status), cutoff)
             server_status == MakeStatus(t, latency, now, status, h)
             Shared(q) == [k \in DOMAIN q |->
                              IF q[k].name = t /\ q[k].history # << >>
                              THEN [q[k] EXCEPT !.history = h] ELSE q[k]]
         IN /\ history' = [history EXCEPT ![t] = h]
            /\ server_statuses' = Shared(server_statuses)
            /\ IF closed
               THEN /\ pc' = [pc EXCEPT ![t] = "done"]
                    /\ chan' = Shared(chan)
                    /\ UNCHANGED << sentLog, wakeAt >>
               ELSE /\ chan' = Append(Shared(chan), server_status)
                    /\ sentLog' = Append(sentLog, server_status)
                    /\ wakeAt' = [wakeAt EXCEPT ![t] = Some(clock + PollInterval)]
                    /\ pc' = [pc EXCEPT ![t] = "sleeping"]
    /\ UNCHANGED << clock, closed, mainpc, mainWakeAt, recvLog, pcAtClose,
                    classifyVars >>

\* one pass of the loop body, from ping_host to the send: classify_latency,
\* push_back, eviction, the ServerStatus literal, sender.send(..).await.
\* The channel is unbounded, so the send never waits: the status is queued
\* and the task starts Timer::after(2 s), or the receiver is gone, send is
\* Err and the loop breaks.
MonitorIterate(t) ==
    /\ pc[t] = "probing"
    /\ closed \/ Len(chan) < MaxChan
    /\ \E latency \in ping_host(t) :
         LET status == classify_latency(latency)
             now == clock
             cutoff == now - RetentionWindow
             h == Evict(PushBack(history[t], now, status), cutoff)
             server_status == MakeStatus(t, latency, now, status, h)
         IN /\ history' = [history EXCEPT ![t] = h]
            /\ IF closed
               THEN /\ pc' = [pc EXCEPT ![t] = "done"]
                    /\ UNCHANGED << chan, sentLog, wakeAt >>
               ELSE /\ chan' = Append(chan, server_status)
                    /\ sentLog' = Append(sentLog, server_status)
                    /\ wakeAt' = [wakeAt EXCEPT ![t] = Some(clock + PollInterval)]
                    /\ pc' = [pc EXCEPT ![t] = "sleeping"]
    /\ UNCHANGED << clock, closed, mainVars, classifyVars >>

\* Timer::after(Duration::from_secs(2)) has fired
MonitorWake(t) ==
    /\ pc[t] = "sleeping"
    /\ clock >= wakeAt[t][1]
    /\ pc' = [pc EXCEPT ![t] = "probing"]
    /\ wakeAt' = [wakeAt EXCEPT ![t] = None]
    /\ UNCHANGED << clock, history, chan, closed, mainVars, sentLog, classifyVars >>

(***************************************************************************)
(* main                                                                    *)
(***************************************************************************)
\* a placeholder that claims a good connection
Placeholder_good(name, now) ==
    [ name |-> name, latency |-> None, last_update |-> now,
      status |-> "Good", history |-> << >> ]

\* the ServerStatus pushed for each configured server before the tasks start
Placeholder(name, now) ==
    [ name |-> name, latency |-> None, last_update |-> now,
      status |-> "Timeout", history |-> << >> ]

\* a search that falls back to the first entry
Find_or_first(servers, name) ==
    IF \E i \in DOMAIN servers : servers[i].name = name
    THEN CHOOSE i \in DOMAIN servers :
            /\ servers[i].name = name
            /\ \A j \in DOMAIN servers : servers[j].name = name => i <= j
    ELSE 1

\* server_statuses.iter_mut().find(|s| s.name == status.name): the index of
\* the first entry with that name, 0 when there is none
Find(servers, name) ==
    IF \E i \in DOMAIN servers : servers[i].name = name
    THEN CHOOSE i \in DOMAIN servers :
            /\ servers[i].name = name
            /\ \A j \in DOMAIN servers : servers[j].name = name => i <= j
    ELSE 0

\* an insert-or-update: a status of an unknown name becomes a new entry
Merge_push_unmatched(servers, status) ==
    LET i == Find(servers, status.name)
    IN IF i = 0 THEN Append(servers, status) ELSE [servers EXCEPT ![i] = status]

\* the status written over the first entry, whatever its name
Merge_first_entry(servers, status) == [servers EXCEPT ![1] = status]

\* the entry updated field by field, the history forgotten
Merge_fieldwise(servers, status) ==
    LET i == Find(servers, status.name)
    IN IF i = 0 THEN servers
       ELSE [servers EXCEPT ![i].latency = status.latency,
                            ![i].status = status.status,
                            ![i].last_update = status.last_update]

\* if let Some(server) = ...find(...) { *server = status; }
Merge(servers, status) ==
    LET i == Find(servers, status.name)
    IN IF i = 0 THEN servers ELSE [servers EXCEPT ![i] = status]

\* the draw_ui call before the loop
MainInitialDraw ==
    /\ mainpc = "initial_draw"
    /\ mainpc' = "poll"
    /\ UNCHANGED << clock, monitorVars, chan, closed, server_statuses,
                    mainWakeAt, sentLog, recvLog, pcAtClose,
                    classifyVars >>

\* event::poll / event::read saw 'q': break; the async block ends and the
\* receiver is dropped, which closes the channel.  Nothing is received
\* between the break and the drop, so the two are one step.  The key is
\* pressed at least one poll interval before the last instant of the model,
\* so that a timer running at the close can still fire.
MainQuit ==
    /\ mainpc = "poll"
    /\ \E p \in Instants : p >= clock + PollInterval
    /\ mainpc' = "exited"
    /\ closed' = TRUE
    /\ pcAtClose' = Some(pc)
    /\ UNCHANGED << clock, monitorVars, chan, server_statuses, mainWakeAt,
                    sentLog, recvLog, classifyVars >>

\* no key, or a key other than 'q'
MainNoQuit ==
    /\ mainpc = "poll"
    /\ mainpc' = "drain"
    /\ UNCHANGED << clock, monitorVars, chan, closed, server_statuses,
                    mainWakeAt, sentLog, recvLog, pcAtClose,
                    classifyVars >>

\* a receive that takes the newest queued status first
MainRecv_lifo ==
    /\ mainpc = "drain"
    /\ chan # << >>
    /\ chan' = SubSeq(chan, 1, Len(chan) - 1)
    /\ server_statuses' = Merge(server_statuses, chan[Len(chan)])
    /\ recvLog' = Append(recvLog, chan[Len(chan)])
    /\ UNCHANGED << clock, monitorVars, closed, mainpc, mainWakeAt,
                    sentLog, pcAtClose, classifyVars >>

\* if let in place of while let: one status is received and main redraws
MainRecv_only_one ==
    /\ mainpc = "drain"
    /\ chan # << >>
    /\ chan' = Tail(chan)
    /\ server_statuses' = Merge(server_statuses, Head(chan))
    /\ recvLog' = Append(recvLog, Head(chan))
    /\ mainpc' = "redraw"
    /\ UNCHANGED << clock, monitorVars, closed, mainWakeAt,
                    sentLog, pcAtClose, classifyVars >>

\* receiver.try_recv() is Ok(status): merge it and try again
MainRecv ==
    /\ mainpc = "drain"
    /\ chan # << >>
    /\ chan' = Tail(chan)
    /\ server_statuses' = Merge(server_statuses, Head(chan))
    /\ recvLog' = Append(recvLog, Head(chan))
    /\ UNCHANGED << clock, monitorVars, closed, mainpc, mainWakeAt,
                    sentLog, pcAtClose,
                    classifyVars >>

\* receiver.try_recv() is Err(Empty): the while let ends
MainRecvEmpty ==
    /\ mainpc = "drain"
    /\ chan = << >>
    /\ mainpc' = "redraw"
    /\ UNCHANGED << clock, monitorVars, chan, closed, server_statuses,
                    mainWakeAt, sentLog, recvLog, pcAtClose,
                    classifyVars >>

\* draw_ui(&server_statuses), then Timer::after(500 ms)
MainRedraw ==
    /\ mainpc = "redraw"
    /\ mainWakeAt' = Some(clock + RedrawInterval)
    /\ mainpc' = "sleep"
    /\ UNCHANGED << clock, monitorVars, chan, closed, server_statuses,
                    sentLog, recvLog, pcAtClose,
                    classifyVars >>

\* Timer::after(Duration::from_millis(500)) has fired.  The clock of the
\* model stops at its last instant, time does not: a timer set then fires
\* too (main stamps nothing with the time it reads).
MainWake ==
    /\ mainpc = "sleep"
    /\ clock >= mainWakeAt[1] \/ clock = LastInstant
    /\ mainpc' = "poll"
    /\ mainWakeAt' = None
    /\ UNCHANGED << clock, monitorVars, chan, closed, server_statuses,
                    sentLog, recvLog, pcAtClose,
                    classifyVars >>

(***************************************************************************)
(* Time                                                                    *)
(***************************************************************************)
\* the monotonic clock moves on to a later instant
Tick ==
    /\ \E p \in Instants : p > clock /\ clock' = p
    /\ UNCHANGED << monitorVars, chan, closed, mainVars, sentLog, classifyVars >>

(***************************************************************************)
(* The program                                                             *)
(***************************************************************************)
\* the state main and the tasks are in once the tasks are spawned
ProgramInit ==
    /\ clock = 0
    /\ pc = [t \in Names |-> "probing"]
    /\ history = [t \in Names |-> << >>]
    /\ wakeAt = [t \in Names |-> None]
    /\ chan = << >>
    /\ closed = FALSE
    /\ server_statuses =
          [i \in DOMAIN get_default_servers |-> Placeholder(get_default_servers[i], 0)]
    /\ mainpc = "initial_draw"
    /\ mainWakeAt = None
    /\ sentLog = << >>
    /\ recvLog = << >>
    /\ pcAtClose = None

Init ==
    /\ ProgramInit
    /\ input = None
    /\ output = None

Monitor(t) ==
    \/ MonitorIterate(t)
    \/ MonitorWake(t)

Main ==
    \/ MainInitialDraw
    \/ MainQuit
    \/ MainNoQuit
    \/ MainRecv
    \/ MainRecvEmpty
    \/ MainRedraw
    \/ MainWake

Next ==
    \/ \E t \in Names : Monitor(t)
    \/ Main
    \/ Tick

Spec == Init /\ [][Next]_vars

\* The executor keeps running every task that can run, and time passes.
LiveSpec ==
    /\ Spec
    /\ WF_vars(Tick)
    /\ \A t \in Names : WF_vars(Monitor(t))

\* every step of main but the quit
MainCycle ==
    \/ MainInitialDraw
    \/ MainNoQuit
    \/ MainRecv
    \/ MainRecvEmpty
    \/ MainRedraw
    \/ MainWake

\* block_on keeps running main as well: unless 'q' is pressed, the display
\* loop goes round.
CycleSpec ==
    /\ LiveSpec
    /\ WF_vars(MainCycle)

(***************************************************************************)
(* classify_latency on its own: every input up to MaxLatency, and None     *)
(***************************************************************************)
Classify ==
    /\ output = None
    /\ output' = Some(classify_latency(input))
    /\ UNCHANGED << clock, monitorVars, chan, closed, mainVars, sentLog, input >>

InitClassify ==
    /\ ProgramInit
    /\ input \in { None } \cup { Some(d) : d \in 0..MaxLatency }
    /\ output = None

NextClassify == Classify

SpecClassify == InitClassify /\ [][NextClassify]_vars

(***************************************************************************)
(* The drain loop on its own: any queue of statuses, a name that no entry  *)
(* of server_statuses has included                                         *)
(***************************************************************************)
StatusInputs ==
    { MakeStatus(n, l, now, classify_latency(l),
                 << [timestamp |-> now, status |-> classify_latency(l)] >>) :
        n \in Names \cup { UnknownName }, l \in ProbeResults, now \in Instants }

RECURSIVE SeqsUpTo(_, _)
SeqsUpTo(S, n) ==
    IF n = 0 THEN { << >> }
    ELSE LET shorter == SeqsUpTo(S, n - 1)
         IN shorter \cup { Append(q, x) : q \in shorter, x \in S }

InitMerge ==
    /\ clock = 0
    /\ pc = [t \in Names |-> "sleeping"]
    /\ history = [t \in Names |-> << >>]
    /\ wakeAt = [t \in Names |-> Some(PollInterval)]
    /\ chan \in SeqsUpTo(StatusInputs, MaxChan)
    /\ closed = FALSE
    /\ server_statuses =
          [i \in DOMAIN get_default_servers |-> Placeholder(get_default_servers[i], 0)]
    /\ mainpc = "drain"
    /\ mainWakeAt = None
    /\ sentLog = chan
    /\ recvLog = << >>
    /\ pcAtClose = None
    /\ input = None
    /\ output = None

NextMerge ==
    \/ MainRecv
    \/ MainRecvEmpty

SpecMerge == InitMerge /\ [][NextMerge]_vars

(***************************************************************************)
(* draw_graph on its own: histories in ascending order of timestamp, with  *)
(* samples before the window, on column edges and at the render time       *)
(***************************************************************************)
\* the character drawn for a status
Glyph(status) ==
    CASE status = "Good" -> "U+25CF"
      [] status = "Fair" -> "U+25D0"
      [] status = "Poor" -> "U+25D1"
      [] status = "Timeout" -> "U+25CB"

\* vec![' '; GRAPH_WIDTH]; column pos of the code is index pos + 1 here
BlankGraph == [c \in 1..GRAPH_WIDTH |-> " "]

\* Duration::from_secs(GRAPH_HISTORY_MINUTES as u64 * 60) / GRAPH_WIDTH as u32
time_per_char == RetentionWindow \div GRAPH_WIDTH

\* the first sample of a column kept, later ones ignored
RECURSIVE Plot_first_wins(_, _, _)
Plot_first_wins(graph, h, start_time) ==
    IF h = << >> THEN graph
    ELSE LET timestamp == Head(h).timestamp
             pos == (timestamp - start_time) \div time_per_char
         IN Plot_first_wins(
               IF timestamp >= start_time /\ pos < GRAPH_WIDTH /\ graph[pos + 1] = " "
               THEN [graph EXCEPT ![pos + 1] = Glyph(Head(h).status)]
               ELSE graph,
               Tail(h), start_time)

\* the test timestamp >= start_time left out: duration_since saturates to
\* zero, so a sample older than the window lands in column 0
RECURSIVE Plot_no_window_check(_, _, _)
Plot_no_window_check(graph, h, start_time) ==
    IF h = << >> THEN graph
    ELSE LET timestamp == Head(h).timestamp
             elapsed == IF timestamp >= start_time THEN timestamp - start_time ELSE 0
             pos == elapsed \div time_per_char
         IN Plot_no_window_check(
               IF pos < GRAPH_WIDTH
               THEN [graph EXCEPT ![pos + 1] = Glyph(Head(h).status)]
               ELSE graph,
               Tail(h), start_time)

\* for (timestamp, status) in history { if *timestamp >= start_time { ... } }
\* elapsed.as_secs_f64() / time_per_char.as_secs_f64() as usize is the
\* quotient rounded down
RECURSIVE Plot(_, _, _)
Plot(graph, h, start_time) ==
    IF h = << >> THEN graph
    ELSE LET timestamp == Head(h).timestamp
             pos == (timestamp - start_time) \div time_per_char
         IN Plot(
               IF timestamp >= start_time /\ pos < GRAPH_WIDTH
               THEN [graph EXCEPT ![pos + 1] = Glyph(Head(h).status)]
               ELSE graph,
               Tail(h), start_time)

\* the early return for an empty history gives an empty string
draw_graph_empty_string(h, now) ==
    IF h = << >> THEN << >>
    ELSE Plot(BlankGraph, h, now - RetentionWindow)

draw_graph(h, now) ==
    IF h = << >> THEN [c \in 1..GRAPH_WIDTH |-> " "]
    ELSE Plot(BlankGraph, h, now - RetentionWindow)

\* the render times examined
GraphNows == { RetentionWindow + RedrawInterval, 2 * RetentionWindow }

\* timestamps, as offsets from the start of the window: before it, on its
\* first instant, one second into it, on both sides of the first column
\* edge, on the last instant of the last column, and at the render time
GraphOffsets ==
    { 0 - 1000, 0, 1000, time_per_char - 1, time_per_char,
      RetentionWindow - 1, RetentionWindow }

GraphSamples(now) ==
    { [timestamp |-> now - RetentionWindow + off, status |-> st] :
        off \in GraphOffsets, st \in Tiers }

GraphHistories(now) ==
    { h \in SeqsUpTo(GraphSamples(now), MaxSamples) :
        \A i \in DOMAIN h : \A j \in DOMAIN h :
           i < j => h[i].timestamp <= h[j].timestamp }

Render ==
    /\ output = None
    /\ output' = Some(draw_graph(input.history, input.now))
    /\ UNCHANGED << clock, monitorVars, chan, closed, mainVars, sentLog, input >>

InitGraph ==
    /\ ProgramInit
    /\ input \in UNION { { [history |-> h, now |-> now] : h \in GraphHistories(now) } :
                          now \in GraphNows }
    /\ output = None

NextGraph == Render

SpecGraph == InitGraph /\ [][NextGraph]_vars

(***************************************************************************)
(* draw_ui: the staleness marker of one row, as a function                 *)
(***************************************************************************)
\* Duration::as_secs: the whole seconds of a duration given in milliseconds
as_secs(d) == d \div 1000

\* the " (Ns ago)" suffix draw_ui prints after a row at the instant now:
\* Some(N) when it is printed, None when it is not
StaleMarker(server, now) ==
    LET age == as_secs(now - server.last_update)
    IN IF age > 5 THEN Some(age) ELSE None

\* elapsed times between a last update and a redraw, every 100 ms
StaleAges == { a \in 0..MaxAge : a % 100 = 0 } \cup { MaxAge }

DrawStale ==
    /\ output = None
    /\ output' = Some(StaleMarker(input.server, input.now))
    /\ UNCHANGED << clock, monitorVars, chan, closed, mainVars, sentLog, input >>

InitStale ==
    /\ ProgramInit
    /\ input \in { [server |-> Placeholder(name, l), now |-> l + a] :
                      name \in Names, l \in Instants, a \in StaleAges }
    /\ output = None

NextStale == DrawStale

SpecStale == InitStale /\ [][NextStale]_vars

(***************************************************************************)
(* Properties                                                              *)
(***************************************************************************)
\* the statuses of one server in a log or a queue, in order
Of(log, name) ==
    LET IsOfName(st) == st.name = name
    IN SelectSeq(log, IsOfName)

Last(q) == q[Len(q)]

C2_RetentionWindow ==
    /\ \A t \in Names :
         history[t] # << >> =>
            \A i \in DOMAIN history[t] :
               history[t][i].timestamp >= Last(history[t]).timestamp - 10 * 60 * 1000
    /\ \A k \in DOMAIN chan :
         \A i \in DOMAIN chan[k].history :
            chan[k].history[i].timestamp >= chan[k].last_update - 10 * 60 * 1000

\* a task appended at 0 and at 2 s, stalled, and appended again ten minutes
\* after its second sample: the first sample is gone, the second is kept
C2_Witness ==
    \E t \in Names :
       /\ \E k \in DOMAIN sentLog :
             sentLog[k].name = t /\ sentLog[k].last_update = 0
       /\ Len(history[t]) = 2
       /\ history[t][1].timestamp = PollInterval
       /\ history[t][2].timestamp = PollInterval + RetentionWindow
       /\ chan # << >>
       /\ Last(chan).name = t
       /\ Last(chan).history = history[t]

\* C3: a step that receives a status replaces the entry with that status's
\* name by exactly that status and leaves every other entry as it was.
C3_MergeFrame ==
    [][ recvLog' # recvLog =>
          LET st == Last(recvLog')
          IN /\ DOMAIN server_statuses' = DOMAIN server_statuses
             /\ \A i \in DOMAIN server_statuses :
                   server_statuses'[i] =
                      IF server_statuses[i].name = st.name
                      THEN st ELSE server_statuses[i] ]_vars

\* the first server reported 30 ms and then a failed probe; the second
\* server's entry is what it reported in between
C3_Witness ==
    /\ Len(recvLog) = 3
    /\ recvLog[1].name = get_default_servers[1]
    /\ recvLog[1].latency = Some(30)
    /\ recvLog[1].status = "Good"
    /\ recvLog[2].name = get_default_servers[2]
    /\ recvLog[3].name = get_default_servers[1]
    /\ recvLog[3].latency = None
    /\ recvLog[3].status = "Timeout"
    /\ server_statuses[1] = recvLog[3]
    /\ server_statuses[2] = recvLog[2]

C5_NoExitWhileOpen ==
    /\ [](~closed => \A t \in Names : pc[t] # "done")
    /\ [][ \A t \in Names :
             (pc'[t] = "done" /\ pc[t] # "done") => (closed /\ pc[t] = "probing")
       ]_vars

\* the receiver is open and a task that has seen a success and then a
\* failure is about to probe again
C5_Witness ==
    \E t \in Names :
       /\ ~closed
       /\ pc[t] = "probing"
       /\ Len(history[t]) = 2
       /\ history[t][1].status = "Good"
       /\ history[t][2].status = "Timeout"

\* C6: for every server, the statuses received are, in order, the statuses
\* its task sent, those still queued following them.
C6_PerTargetOrder ==
    \A t \in Names : Of(sentLog, t) = Of(recvLog, t) \o Of(chan, t)

\* the second server's first status, then the first server's, then the
\* second server's second: the servers interleave either way round
C6_Witness ==
    /\ Len(recvLog) = 3
    /\ recvLog[1].name = get_default_servers[2]
    /\ recvLog[2].name = get_default_servers[1]
    /\ recvLog[3].name = get_default_servers[2]
    /\ recvLog[1].last_update < recvLog[3].last_update

\* C7: every entry of server_statuses is, as a whole, the placeholder it
\* started as or the last status received for its server.
C7_WholeRecord ==
    \A i \in DOMAIN server_statuses :
       LET got == Of(recvLog, get_default_servers[i])
       IN server_statuses[i] =
             IF got = << >> THEN Placeholder(get_default_servers[i], 0)
             ELSE Last(got)

\* at a redraw, after two statuses of one server were received
C7_Witness ==
    /\ mainpc = "redraw"
    /\ \E i \in DOMAIN server_statuses :
          /\ Len(Of(recvLog, get_default_servers[i])) = 2
          /\ Len(server_statuses[i].history) = 2

\* C8: a received status whose name no entry has changes no entry; the
\* drain goes on.
C8_UnmatchedDropped ==
    [][ (recvLog' # recvLog
           /\ \A i \in DOMAIN server_statuses :
                 server_statuses[i].name # Last(recvLog').name)
        => /\ server_statuses' = server_statuses
           /\ chan' = Tail(chan)
           /\ mainpc' = "drain" ]_vars

\* a status of an unknown name was received, and the one queued behind it
\* was merged
C8_Witness ==
    /\ Len(recvLog) = 2
    /\ recvLog[1].name = UnknownName
    /\ recvLog[2].name = get_default_servers[2]
    /\ server_statuses[2] = recvLog[2]
    /\ server_statuses[1] = Placeholder(get_default_servers[1], 0)

\* C9: until the first status of a server is received, its entry has status
\* Timeout, no latency and an empty history.
C9_PlaceholderUntilFirst ==
    \A i \in DOMAIN server_statuses :
       Of(recvLog, get_default_servers[i]) = << >> =>
          /\ server_statuses[i].name = get_default_servers[i]
          /\ server_statuses[i].status = "Timeout"
          /\ server_statuses[i].latency = None
          /\ server_statuses[i].history = << >>

\* at a redraw, one server has reported and the other has not, though its
\* first status is already queued
C9_Witness ==
    /\ mainpc = "redraw"
    /\ Of(recvLog, get_default_servers[1]) # << >>
    /\ Of(recvLog, get_default_servers[2]) = << >>
    /\ Of(sentLog, get_default_servers[2]) # << >>

\* C10: a step in which a task changes its own history changes no queued
\* status and no entry of server_statuses; an entry's history changes only
\* in a step that receives a status, and becomes that status's history.
C10_CopyOnSend ==
    [][ /\ (history' # history =>
              /\ server_statuses' = server_statuses
              /\ \A k \in DOMAIN chan :
                    k \in DOMAIN chan' /\ chan'[k] = chan[k])
        /\ \A i \in DOMAIN server_statuses :
              server_statuses'[i].history # server_statuses[i].history =>
                 /\ recvLog' = Append(recvLog, Head(chan))
                 /\ server_statuses'[i] = Head(chan) ]_vars

\* a task has appended and evicted since: its queued status and its entry
\* of server_statuses keep the histories they were sent with
C10_Witness ==
    \E i \in DOMAIN server_statuses :
       LET t == get_default_servers[i]
       IN /\ Len(chan) = 2
          /\ chan[1].name = t
          /\ chan[2].name = t
          /\ chan[1].history # history[t]
          /\ server_statuses[i].history # << >>
          /\ server_statuses[i].history # history[t]
          /\ server_statuses[i].history # chan[1].history

\* the column of a sample of the examined history, for a window of ten
\* minutes drawn on 60 columns of ten seconds; -1 when it is not drawn
ColumnOf(i) ==
    LET start == input.now - 10 * 60 * 1000
        ts == input.history[i].timestamp
    IN IF ts >= start /\ (ts - start) \div 10000 < 60
       THEN (ts - start) \div 10000 ELSE 0 - 1

\* C11: a history with no sample is drawn as exactly 60 blank columns,
\* whatever the render time.
C11_EmptyIsBlank ==
    (output # None /\ input.history = << >>) =>
        /\ Len(output[1]) = 60
        /\ \A c \in 1..60 : output[1][c] = " "

C11_Witness ==
    /\ output # None
    /\ input.history = << >>
    /\ input.now = 2 * RetentionWindow

\* C12: a column that two or more samples of the history map to shows the
\* glyph of the last of them in the history.
C12_LastWriteWins ==
    output # None =>
        \A i \in DOMAIN input.history : \A j \in DOMAIN input.history :
           (/\ i < j
            /\ ColumnOf(i) >= 0
            /\ ColumnOf(j) = ColumnOf(i)
            /\ \A k \in DOMAIN input.history : k > j => ColumnOf(k) # ColumnOf(j))
           => output[1][ColumnOf(j) + 1] = Glyph(input.history[j].status)

\* two samples one second apart, a Good one and then a Timeout one: the
\* column shows the Timeout glyph
C12_Witness ==
    /\ output # None
    /\ Len(input.history) >= 2
    /\ input.history[1].status = "Good"
    /\ input.history[2].status = "Timeout"
    /\ input.history[2].timestamp = input.history[1].timestamp + 1000
    /\ ColumnOf(1) = 0
    /\ ColumnOf(2) = 0
    /\ output[1][1] = "U+25CB"

\* C13: draw_graph returns 60 columns; column c shows the glyph of the last
\* sample with timestamp >= start and floor((timestamp - start) / 10 s) = c,
\* and is blank when there is none; a sample before start or at column 60
\* changes nothing.
C13_Columns ==
    output # None =>
        /\ DOMAIN output[1] = 1..60
        /\ \A c \in 0..59 :
              LET here == { i \in DOMAIN input.history : ColumnOf(i) = c }
              IN output[1][c + 1] =
                    IF here = { } THEN " "
                    ELSE Glyph(input.history[CHOOSE i \in here :
                                                \A k \in here : k <= i].status)

\* a sample older than the window and one stamped with the render time
\* itself: nothing is drawn
C13_Witness ==
    /\ output # None
    /\ Len(input.history) = 2
    /\ input.history[1].timestamp < input.now - RetentionWindow
    /\ input.history[2].timestamp = input.now
    /\ output[1] = BlankGraph

\* C14: main starts to redraw only in a step from the drain in which
\* try_recv found the channel empty, everything sent until then having been
\* received; a drain ends in no other way than that redraw, which is
\* followed by the timer; and in the drain a try_recv step is always
\* possible, so main never waits there.
C14_DrainThenRedraw ==
    /\ [][ (mainpc' = "redraw" /\ mainpc # "redraw") =>
              /\ mainpc = "drain"
              /\ chan = << >>
              /\ recvLog = sentLog
              /\ UNCHANGED << chan, recvLog, server_statuses >> ]_vars
    /\ [][ mainpc = "drain" => mainpc' \in { "drain", "redraw" } ]_vars
    /\ [][ (mainpc = "redraw" /\ mainpc' # "redraw") => mainpc' = "sleep" ]_vars
    /\ [](mainpc = "drain" => ENABLED (MainRecv \/ MainRecvEmpty))

\* a redraw after a drain that received the two statuses sent at the start
C14_Witness ==
    /\ mainpc = "redraw"
    /\ Len(recvLog) = 2
    /\ recvLog[1].last_update = 0
    /\ recvLog[2].last_update = 0
    /\ sentLog = recvLog
    /\ mainWakeAt = None

\* C15: unless the receiver is closed, every task goes on sending to the
\* end of the modelled time (each sends a status stamped with the last
\* instant), whatever the probes of the others return, and a channel that
\* holds statuses is eventually drained: main finds it empty again.
C15_Progress ==
    /\ <>(\/ closed
          \/ \A t \in Names :
                \E k \in DOMAIN sentLog :
                   sentLog[k].name = t /\ sentLog[k].last_update = LastInstant)
    /\ (chan # << >>) ~> (closed \/ chan = << >>)

\* every probe of the first server failed, from the start to the last
\* instant; the second server's entry shows its status of the last instant
C15_Witness ==
    /\ ~closed
    /\ Len(Of(sentLog, get_default_servers[1])) >= 2
    /\ \A k \in DOMAIN sentLog :
          sentLog[k].name = get_default_servers[1] => sentLog[k].latency = None
    /\ Last(Of(sentLog, get_default_servers[1])).last_update = LastInstant
    /\ server_statuses[2].last_update = LastInstant
    /\ server_statuses[2].status = "Fair"

\* C16: at a redraw the staleness marker of a row is printed iff the time
\* elapsed since the row's last update exceeds 5 seconds, measured at
\* sub-second resolution (5.5 s exceeds the threshold).
C16_StaleIffOver5s ==
    output # None =>
        ((output[1] # None) <=> (input.now - input.server.last_update > 5000))

\* C17: every status in the channel and every entry of the display state,
\* the placeholders included, carries the tier classify_latency gives its
\* latency; an absent latency goes with Timeout, and a failed probe is sent
\* as such a status.
C17_TierMatchesLatency ==
    \A s \in { chan[i] : i \in DOMAIN chan }
              \cup { server_statuses[i] : i \in DOMAIN server_statuses }
              \cup { sentLog[i] : i \in DOMAIN sentLog } :
        /\ s.status = classify_latency(s.latency)
        /\ s.latency = None => s.status = "Timeout"
        /\ s.status \in { "Good", "Fair", "Poor" } => s.latency # None

\* a failed probe waits in the channel, the first entry shows a good probe
\* and a fair one has been sent, the second entry is still the placeholder
C17_Witness ==
    /\ chan # << >>
    /\ Head(chan).latency = None
    /\ server_statuses[1].latency # None
    /\ server_statuses[1].status = "Good"
    /\ server_statuses[2].history = << >>
    /\ \E k \in DOMAIN sentLog : sentLog[k].status = "Fair"

\* C18: every status a task sends has a non-empty history, in
\* non-decreasing order of timestamp, whose last sample is the (last_update,
\* status) of that status; and each history a task sends is the history it
\* sent before with a prefix (possibly empty) removed and the one new sample
\* added at the end.
C18_EmittedHistories ==
    /\ \A k \in DOMAIN sentLog :
          LET s == sentLog[k]
              h == s.history
          IN /\ h # << >>
             /\ \A i \in DOMAIN h : \A j \in DOMAIN h :
                   i < j => h[i].timestamp <= h[j].timestamp
             /\ Last(h) = [timestamp |-> s.last_update, status |-> s.status]
    /\ \A t \in Names :
          LET sent == Of(sentLog, t)
          IN \A k \in 1..(Len(sent) - 1) :
                LET prev == sent[k].history
                    cur == sent[k + 1].history
                IN \E n \in 0..Len(prev) :
                      cur = SubSeq(prev, n + 1, Len(prev)) \o << Last(cur) >>

\* a task has sent three histories: the second is the first with a sample
\* added, the third has lost the first sample to the eviction
C18_Witness ==
    \E t \in Names :
       LET sent == Of(sentLog, t)
       IN /\ Len(sent) >= 3
          /\ Len(sent[1].history) = 1
          /\ Len(sent[2].history) = 2
          /\ Len(sent[3].history) = 2
          /\ sent[3].history[1] = sent[2].history[2]
          /\ sent[3].history[1] # sent[2].history[1]

\* C19: the display state always holds exactly one entry per configured
\* server, in the order of the configuration: no merge, of a status with a
\* configured name or with a name no entry has, adds, removes, reorders or
\* renames an entry.
C19_OneEntryPerServer ==
    /\ DOMAIN server_statuses = DOMAIN get_default_servers
    /\ \A i \in DOMAIN server_statuses :
          server_statuses[i].name = get_default_servers[i]

\* the second server's status was merged, then a status of an unknown name
\* was received
C19_Witness ==
    /\ Len(recvLog) = 2
    /\ recvLog[1].name = get_default_servers[2]
    /\ recvLog[2].name = UnknownName
    /\ server_statuses[2] = recvLog[1]
    /\ server_statuses[1].history = << >>

\* C20: for every server, the last_update of its entry in the display state
\* never decreases: a merge puts in a status whose last_update is at least
\* that of the entry it replaces, the placeholder included, however the
\* tasks and main interleave.
C20_LastUpdateMonotone ==
    [][ \A i \in DOMAIN server_statuses :
           server_statuses'[i].last_update >= server_statuses[i].last_update ]_vars

\* an entry has been replaced three times, by statuses of three different
\* instants, while the other entry was replaced once
C20_Witness ==
    /\ Len(Of(recvLog, get_default_servers[1])) = 3
    /\ Len(Of(recvLog, get_default_servers[2])) = 1
    /\ server_statuses[1].last_update = LastInstant
    /\ Of(recvLog, get_default_servers[1])[2].last_update
          > Of(recvLog, get_default_servers[1])[1].last_update
    /\ server_statuses[2].last_update < LastInstant

====
